---- MODULE Spec2Model ----
(***************************************************************************)
(* Resumable, partitioned S3 inventory: s3_audit.py (full audit) and       *)
(* s3_audit_recents.py (recent files only).                                *)
(*                                                                         *)
(* Representation.  A key or prefix is the sequence of its '/'-separated   *)
(* components, i.e. the value of Python's key.split('/'):                  *)
(*     "A/C/y.txt"  is  <<"A","C","y.txt">>                                *)
(*     "A/C/"       is  <<"A","C","">>      (ends in '/')                  *)
(*     ""           is  <<"">>              (the empty root prefix)        *)
(* A folder path as produced by os.path.dirname has no trailing "":        *)
(*     "A/C"        is  <<"A","C">>                                        *)
(* so "A/C" and "A/C/" are different values, as they are in the program.   *)
(* A continuation token is opaque in the program; here it is the number of *)
(* objects of the listing that precede the page it points at (0 = None).   *)
(***************************************************************************)
EXTENDS Integers, Sequences, FiniteSets, TLC

\* ---------------------------------------------------------------- bounds
\* objects per listing page (PageSize is 1000 in the source, scaled down)
PageSize == 2
\* pages between two periodic checkpoints (500 in the source, scaled down)
SaveEvery == 2
\* number of scan_bucket runs (process starts) explored
MaxRuns == 3
\* samples read per folder by s3_discover_clients.py (80 in the source,
\* scaled down)
SAMPLES_PER_FOLDER == 2
\* listing entries per folder explored for s3_discover_clients.py
ObjectsPerFolder == 3
\* length of TARGET_FOLDERS (17 in the source, scaled down)
NumFolders == 2

\* ------------------------------------------------------- program constants
NoToken == 0
Unbound == 0 - 1
Raiz == "Raiz"
SemExtensao == "(sem extensao)"
Sucesso == "Concluido com Sucesso"
Limite == "Interrompido (Limite)"
Cancelado == "Cancelado pelo Usuario"
Erro == "Erro"
root_prefix == <<"">>

\* ------------------------------------------------------------ the namespace
\* Component names in byte order (the order S3 lists keys in and the order
\* list.sort() gives); "" stands for the position of a '/' boundary.
Names ==
  << "", "2021", "2022", "A", "B", "C", "D", "E", "F", "G", "a", "b", "f1.pdf",
     "f2", "f2.pdf", "f3.txt", "f4.txt", "h.txt", "q.txt", "r.txt", "top.txt",
     "y.txt", "y2.PDF", "z.txt" >>

Obj(k, t) == [key |-> k, ts |-> t]

\* a bucket whose root has child prefixes, files directly under the root and
\* under A/, a marker object, and a partition (E/) of three pages
NsTree ==
  { Obj(<<"A","B","D","z.txt">>, "y2021"),
    Obj(<<"A","B","F","q.txt">>, "y2022"),
    Obj(<<"A","C","">>,          "y2021"),
    Obj(<<"A","C","y.txt">>,     "y2022"),
    Obj(<<"A","C","y2.PDF">>,    "recent"),
    Obj(<<"A","top.txt">>,       "y2021"),
    Obj(<<"E","G","h.txt">>,     "y2022"),
    Obj(<<"E","f1.pdf">>,        "y2021"),
    Obj(<<"E","f2">>,            "recent"),
    Obj(<<"E","f3.txt">>,        "y2021"),
    Obj(<<"E","f4.txt">>,        "y2021"),
    Obj(<<"r.txt">>,             "y2021") }

\* a flat bucket: no child prefixes under the root
NsFlat ==
  { Obj(<<"f2">>, "recent"), Obj(<<"r.txt">>, "y2021"), Obj(<<"top.txt">>, "y2022") }

Namespaces == { NsTree, NsFlat }

\* a bucket whose listing carries objects the per-object try block fails
\* on: no 'LastModified' ("missing"), a LastModified that is no datetime
\* ("nodate"), a datetime without time zone ("naive")
NsMalformed ==
  { Obj(<<"E","">>,       "nodate"),
    Obj(<<"E","f1.pdf">>, "missing"),
    Obj(<<"E","f2">>,     "nodate"),
    Obj(<<"E","f3.txt">>, "naive"),
    Obj(<<"E","f4.txt">>, "recent"),
    Obj(<<"r.txt">>,      "y2021") }

\* the bucket a/2021/f1.pdf, a/2021/f2.pdf, a/2022/f3.txt, b/
NsScenario ==
  { Obj(<<"a","2021","f1.pdf">>, "y2021"),
    Obj(<<"a","2021","f2.pdf">>, "y2021"),
    Obj(<<"a","2022","f3.txt">>, "y2022"),
    Obj(<<"b","">>,              "y2021") }

ObjectNamespaces == { NsMalformed, NsScenario }
IgnoredPrefixes == { <<"A","">>, <<"A","B","">>, <<"A","B","D","">> }
SafetyLimits == { 0, 1, 2 }
Variants == { "full", "recents" }

\* ------------------------------------------------------------- string model
Min(a, b) == IF a < b THEN a ELSE b

Rank(c) == CHOOSE r \in 1..Len(Names) : Names[r] = c

\* byte-wise string order on keys
KeyLess(a, b) ==
  LET n == Min(Len(a), Len(b))
      diffs == { j \in 1..n : a[j] # b[j] }
  IN  IF diffs = {} THEN Len(a) < Len(b)
      ELSE LET j == CHOOSE d \in diffs : \A e \in diffs : d <= e
           IN  Rank(a[j]) < Rank(b[j])

\* str.startswith(p) for a prefix p that is "" or ends in '/'
StartsWith(k, p) ==
  /\ Len(k) >= Len(p)
  /\ \A j \in 1..(Len(p) - 1) : k[j] = p[j]

\* str.endswith('/')
EndsWithSlash(k) == Len(k) > 1 /\ k[Len(k)] = ""

\* FolderPath that keeps the first path component only
FolderPath_TopLevel(k) ==
  IF Len(k) = 1 THEN <<Raiz>> ELSE <<k[1]>>

\* os.path.dirname(key) followed by the "Raiz" substitution
FolderPath(k) ==
  LET d == SubSeq(k, 1, Len(k) - 1)
  IN  IF d = <<>> THEN <<Raiz>> ELSE d

\* AncestorChain that records only the folder itself, not its ancestors
AncestorChain_LeafOnly(folder) ==
  IF folder = <<Raiz>> THEN {} ELSE { folder \o <<"">> }

\* the current_build loop: every prefix of the folder, '/'-terminated,
\* parts equal to "Raiz" skipped
AncestorChain(folder) ==
  LET parts == SelectSeq(folder, LAMBDA p : p # Raiz)
  IN  { SubSeq(parts, 1, n) \o <<"">> : n \in 1..Len(parts) }

\* os.path.splitext(key)[1]
SplitExt(k) ==
  LET name == k[Len(k)]
  IN  CASE name \in {"z.txt", "q.txt", "y.txt", "top.txt", "h.txt",
                     "f3.txt", "f4.txt", "r.txt"} -> ".txt"
        [] name = "y2.PDF" -> ".PDF"
        [] name \in {"f1.pdf", "f2.pdf"} -> ".pdf"
        [] OTHER -> ""

\* str.lower() on an extension
Lower(e) == IF e = ".PDF" THEN ".pdf" ELSE e

\* LastModified: the year, and the comparison with cutoff_date
Year(ts) == CASE ts = "y2021" -> 2021 [] ts = "y2022" -> 2022 [] OTHER -> 2026
IsRecent(ts) == ts = "recent"


\* --------------------------------------------------------------- variables
VARIABLES
  ns,                  \* the objects of the bucket
  IGNORED_PREFIX,      \* module-level configuration
  MAX_REQUESTS_SAFETY, \* module-level configuration
  variant,             \* "full": s3_audit.py, "recents": s3_audit_recents.py
  ckpt_stats,          \* contents of CHECKPOINT_STATS_FILE, or NoFile
  ckpt_token,          \* contents of CHECKPOINT_TOKEN_FILE, NoToken if absent
  pc,                  \* position of the run inside scan_bucket
  folders_to_scan,
  aggr,                \* the aggregates and ignored_files_count of the run
  current_folder_idx,
  start_token,
  i,                   \* the loop variable of the partition loop
  next_fetch,          \* where the page iterator of partition i stands
  requests_made,
  pages_since_save,
  page,                \* page['Contents'] of the page being processed
  page_next,           \* page['NextContinuationToken'], NoToken if absent
  pos,                 \* index in page of the next object to process
  current_next_token,  \* Unbound while the name is not in locals()
  status_final,
  report,              \* "none", "saved" or "failed": the Excel files of this run
  resumed,             \* history: this run took its start state from a checkpoint
  runs,                \* history: number of runs started
  listing_calls,       \* history: the prefixes get_immediate_subfolders was
                       \* called with in this run
  textract_available,  \* s3_discover_clients.py: the module-level switch
  folder_no,           \* position of run() in TARGET_FOLDERS (1-based)
  objects_seen,        \* listing entries analyze_folder has taken so far
  stats,               \* the stats dictionary of analyze_folder
  folder_summaries,    \* folder_summaries of run()
  output_file,         \* "none", "saved" or "failed": the Excel file of run()
  textract_call        \* history: the Textract call made for the last object

vars ==
  << ns, IGNORED_PREFIX, MAX_REQUESTS_SAFETY, variant, ckpt_stats, ckpt_token,
     pc, folders_to_scan, aggr, current_folder_idx, start_token, i, next_fetch,
     requests_made, pages_since_save, page, page_next, pos, current_next_token,
     status_final, report, resumed, runs, listing_calls,
     textract_available, folder_no, objects_seen, stats, folder_summaries,
     output_file, textract_call >>

\* the variables of s3_discover_clients.py
discover ==
  << textract_available, folder_no, objects_seen, stats, folder_summaries,
     output_file, textract_call >>

\* the variables of the two scanners
scanner ==
  << ns, IGNORED_PREFIX, MAX_REQUESTS_SAFETY, variant, ckpt_stats, ckpt_token,
     pc, folders_to_scan, aggr, current_folder_idx, start_token, i, next_fetch,
     requests_made, pages_since_save, page, page_next, pos, current_next_token,
     status_final, report, resumed, runs, listing_calls >>

config == << ns, IGNORED_PREFIX, MAX_REQUESTS_SAFETY, variant >>
disk == << ckpt_stats, ckpt_token >>
pageVars == << page, page_next, pos >>

\* ------------------------------------------------------------- the counters
EmptyMap == [x \in {} |-> 0]

\* d[k] += 1 on a defaultdict(int)
Inc1(d, k) ==
  IF k \in DOMAIN d THEN [d EXCEPT ![k] = @ + 1] ELSE d @@ (k :> 1)

\* Inc2 assigning a new inner counter instead of incrementing in place
Inc2_Overwrites(d, f, k) ==
  IF f \in DOMAIN d THEN [d EXCEPT ![f] = (k :> 1)] ELSE d @@ (f :> (k :> 1))

\* d[f][k] += 1 on a defaultdict(create_nested_defaultdict)
Inc2(d, f, k) ==
  IF f \in DOMAIN d THEN [d EXCEPT ![f] = Inc1(@, k)] ELSE d @@ (f :> (k :> 1))

EmptyAggr ==
  [ folder_stats |-> EmptyMap, recent_files_stats |-> EmptyMap,
    extension_stats |-> EmptyMap, all_known_paths |-> {},
    files_found_paths |-> {}, total_files |-> 0, ignored_files_count |-> 0 ]

\* the except branch without the increment
Ignore_Uncounted(a) == a

Ignore(a) == [a EXCEPT !.ignored_files_count = @ + 1]

ExtKey(key) == IF SplitExt(key) # "" THEN Lower(SplitExt(key)) ELSE SemExtensao

\* ProcessFull without the object-level exclusion test
ProcessFull_NoExclusion(a, o) ==
  LET key == o.key
      folder_path == FolderPath(key)
  IN  IF EndsWithSlash(key)
        THEN [a EXCEPT !.all_known_paths = @ \cup {key}]
      ELSE [a EXCEPT
              !.files_found_paths = @ \cup {folder_path},
              !.all_known_paths = @ \cup AncestorChain(folder_path),
              !.folder_stats = Inc2(@, folder_path, Year(o.ts)),
              !.recent_files_stats =
                 IF IsRecent(o.ts) THEN Inc1(@, folder_path) ELSE @,
              !.extension_stats = Inc2(@, folder_path, ExtKey(key)),
              !.total_files = @ + 1]

\* body of the per-object try block of s3_audit.py
ProcessFull(a, o) ==
  LET key == o.key
      folder_path == FolderPath(key)
  IN  IF StartsWith(key, IGNORED_PREFIX) THEN Ignore(a)
      ELSE IF o.ts = "missing" THEN Ignore(a)
      ELSE IF EndsWithSlash(key)
        THEN [a EXCEPT !.all_known_paths = @ \cup {key}]
      ELSE
        LET a1 == [a EXCEPT !.files_found_paths = @ \cup {folder_path},
                            !.all_known_paths = @ \cup AncestorChain(folder_path)]
        IN  IF o.ts = "nodate" THEN Ignore(a1)
            ELSE
              LET a2 == [a1 EXCEPT !.folder_stats = Inc2(@, folder_path, Year(o.ts))]
              IN  IF o.ts = "naive" THEN Ignore(a2)
                  ELSE [a2 EXCEPT
                          !.recent_files_stats =
                             IF IsRecent(o.ts) THEN Inc1(@, folder_path) ELSE @,
                          !.extension_stats = Inc2(@, folder_path, ExtKey(key)),
                          !.total_files = @ + 1]

\* body of the per-object try block of s3_audit_recents.py
ProcessRecents(a, o) ==
  LET key == o.key
      folder_path == FolderPath(key)
  IN  IF StartsWith(key, IGNORED_PREFIX) THEN Ignore(a)
      ELSE IF o.ts \in {"missing", "nodate", "naive"} THEN Ignore(a)
      ELSE IF ~IsRecent(o.ts) THEN a
      ELSE IF EndsWithSlash(key)
        THEN [a EXCEPT !.all_known_paths = @ \cup {key}]
      ELSE [a EXCEPT
              !.files_found_paths = @ \cup {folder_path},
              !.all_known_paths = @ \cup AncestorChain(folder_path),
              !.recent_files_stats = Inc1(@, folder_path),
              !.total_files = @ + 1,
              !.extension_stats = Inc2(@, folder_path, ExtKey(key))]

ProcessObject(a, o) ==
  IF variant = "full" THEN ProcessFull(a, o) ELSE ProcessRecents(a, o)

\* ------------------------------------------------------- the listing service
\* SortKeys in descending order
RECURSIVE SortKeys_Descending(_)
SortKeys_Descending(S) ==
  IF S = {} THEN <<>>
  ELSE LET m == CHOOSE x \in S : \A y \in S \ {x} : KeyLess(y, x)
       IN  <<m>> \o SortKeys_Descending(S \ {m})

RECURSIVE SortKeys(_)
SortKeys(S) ==
  IF S = {} THEN <<>>
  ELSE LET m == CHOOSE x \in S : \A y \in S \ {x} : KeyLess(x, y)
       IN  <<m>> \o SortKeys(S \ {m})

RECURSIVE SortObjects(_)
SortObjects(S) ==
  IF S = {} THEN <<>>
  ELSE LET m == CHOOSE x \in S : \A y \in S \ {x} : KeyLess(x.key, y.key)
       IN  <<m>> \o SortObjects(S \ {m})

\* list_objects_v2(Prefix=prefix): every object under the prefix, in key order
ListObjects(prefix) == SortObjects({ o \in ns : StartsWith(o.key, prefix) })

PageContents(L, tok) == SubSeq(L, tok + 1, Min(tok + PageSize, Len(L)))

NextContinuationToken(L, tok) ==
  IF tok + PageSize < Len(L) THEN tok + PageSize ELSE NoToken

\* get_immediate_subfolders: the CommonPrefixes under prefix, sorted
get_immediate_subfolders(prefix) ==
  LET search_prefix ==
        IF prefix # <<"">> /\ ~EndsWithSlash(prefix) THEN prefix \o <<"">> ELSE prefix
      n == Len(search_prefix)
      under == { o \in ns : StartsWith(o.key, search_prefix) /\ Len(o.key) > n }
  IN  SortKeys({ SubSeq(o.key, 1, n) \o <<"">> : o \in under })

\* the drill-down loop over the subfolders of one root folder
DrillDown(folder) ==
  SelectSeq(get_immediate_subfolders(folder),
            LAMBDA sub : ~(sub = IGNORED_PREFIX \/ StartsWith(sub, IGNORED_PREFIX)))

\* ScanStep drilling down into every folder that is not the excluded one
ScanStep_DrillsEvery(folder) ==
  IF folder = IGNORED_PREFIX THEN [append |-> <<>>, calls |-> <<>>]
  ELSE [append |-> DrillDown(folder), calls |-> <<folder>>]

\* one turn of "for folder in root_folders": what it appends to
\* folders_to_scan and the listing calls it makes
ScanStep(folder) ==
  IF folder = IGNORED_PREFIX THEN [append |-> <<>>, calls |-> <<>>]
  ELSE IF StartsWith(IGNORED_PREFIX, folder)
       THEN [append |-> DrillDown(folder), calls |-> <<folder>>]
       ELSE [append |-> <<folder>>, calls |-> <<>>]

RECURSIVE ScanList(_, _)
ScanList(root_folders, k) ==
  IF k > Len(root_folders) THEN <<>>
  ELSE ScanStep(root_folders[k]).append \o ScanList(root_folders, k + 1)

RECURSIVE DrillDownCalls(_, _)
DrillDownCalls(root_folders, k) ==
  IF k > Len(root_folders) THEN <<>>
  ELSE ScanStep(root_folders[k]).calls \o DrillDownCalls(root_folders, k + 1)

\* Partition without the fallback to the root prefix
Partition_NoFallback ==
  LET root_folders == get_immediate_subfolders(root_prefix)
  IN  ScanList(root_folders, 1)

\* PASSO 1 of scan_bucket: the list of prefixes to scan
Partition ==
  LET root_folders == get_immediate_subfolders(root_prefix)
      fts == ScanList(root_folders, 1)
  IN  IF fts = <<>> /\ root_folders = <<>> THEN <<root_prefix>> ELSE fts

\* the calls of get_immediate_subfolders PASSO 1 makes, in order
ListingCalls ==
  <<root_prefix>> \o DrillDownCalls(get_immediate_subfolders(root_prefix), 1)


\* ------------------------------------------------------ the checkpoint codec
NoFile == [exists |-> FALSE]

\* a statistics file whose bytes pickle.load cannot decode (truncated by
\* open(..., 'wb') or written in part)
Corrupt == [exists |-> TRUE, readable |-> FALSE]

\* data_to_save of save_checkpoint
CheckpointRecord(a, idx) ==
  [ exists |-> TRUE, readable |-> TRUE,
    stats |-> a.folder_stats, recent_stats |-> a.recent_files_stats,
    ext_stats |-> a.extension_stats, all_paths |-> a.all_known_paths,
    file_paths |-> a.files_found_paths, total |-> a.total_files,
    folder_idx |-> idx ]

\* TokenFile without the os.remove branch: an old token file stays
TokenFile_KeepsOld(next_token) ==
  IF next_token # NoToken THEN next_token ELSE ckpt_token

\* the token file after save_checkpoint: written if next_token is truthy,
\* removed otherwise
TokenFile(next_token) == IF next_token # NoToken THEN next_token ELSE NoToken

save_checkpoint(a, next_token, idx) ==
  /\ ckpt_stats' = CheckpointRecord(a, idx)
  /\ ckpt_token' = TokenFile(next_token)

\* data.get(key, default)
Get(data, key, default) == IF key \in DOMAIN data THEN data[key] ELSE default

\* the "return None, None, None, None, None, 0, None, 0" of load_checkpoint
\* (None is the empty value of each field)
NoCheckpoint ==
  [ stats |-> EmptyMap, recent_stats |-> EmptyMap, ext_stats |-> EmptyMap,
    paths |-> {}, files_paths |-> {}, total |-> 0,
    token |-> NoToken, idx |-> 0 ]

\* load_checkpoint reading every key with data[...]
Loadable_AllKeys(data) ==
  /\ data.exists
  /\ data.readable
  /\ {"stats", "recent_stats", "ext_stats", "all_paths", "file_paths", "total",
      "folder_idx"} \subseteq DOMAIN data

\* the try block of load_checkpoint raises nothing: pickle.load decodes the
\* file and the keys read with data[...] are there
Loadable(data) ==
  /\ data.exists
  /\ data.readable
  /\ {"stats", "all_paths", "file_paths", "total"} \subseteq DOMAIN data

\* load_checkpoint reading the token file although the statistics file
\* could not be decoded
load_checkpoint_KeepsToken ==
  IF Loadable(ckpt_stats)
  THEN [ stats |-> ckpt_stats.stats,
         recent_stats |-> Get(ckpt_stats, "recent_stats", EmptyMap),
         ext_stats |-> Get(ckpt_stats, "ext_stats", EmptyMap),
         paths |-> ckpt_stats.all_paths,
         files_paths |-> ckpt_stats.file_paths, total |-> ckpt_stats.total,
         token |-> ckpt_token, idx |-> Get(ckpt_stats, "folder_idx", 0) ]
  ELSE [ NoCheckpoint EXCEPT !.token = ckpt_token ]

\* the tuple load_checkpoint returns
load_checkpoint ==
  IF Loadable(ckpt_stats)
  THEN [ stats |-> ckpt_stats.stats,
         recent_stats |-> Get(ckpt_stats, "recent_stats", EmptyMap),
         ext_stats |-> Get(ckpt_stats, "ext_stats", EmptyMap),
         paths |-> ckpt_stats.all_paths,
         files_paths |-> ckpt_stats.file_paths, total |-> ckpt_stats.total,
         token |-> ckpt_token, idx |-> Get(ckpt_stats, "folder_idx", 0) ]
  ELSE NoCheckpoint

\* "if stats:" in s3_audit.py, "if recent_stats:" in s3_audit_recents.py
UseCheckpoint(ck) ==
  IF variant = "full" THEN DOMAIN ck.stats # {} ELSE DOMAIN ck.recent_stats # {}

\* variant of TokenToSave: the handlers never pass the token on
TokenToSave_DropsToken(t) == NoToken

\* "'current_next_token' in locals() and current_next_token"
TokenToSave(t) == IF t # Unbound /\ t # NoToken THEN t ELSE NoToken

\* ------------------------------------------- s3_discover_clients.py: state
\* "stats = {'total_files': 0, 'ocr_performed': 0, 'files_data': []}"
EmptyStats == [ total_files |-> 0, ocr_performed |-> 0, files_data |-> <<>> ]

\* the process before run() has analysed anything
DiscoverStart ==
  /\ textract_available = TRUE
  /\ folder_no = 1
  /\ objects_seen = 0
  /\ stats = EmptyStats
  /\ folder_summaries = <<>>
  /\ output_file = "none"
  /\ textract_call = "none"

\* -------------------------------------------------------------- the run
InitRun(buckets) ==
  /\ ns \in buckets
  /\ IGNORED_PREFIX \in IgnoredPrefixes
  /\ MAX_REQUESTS_SAFETY \in SafetyLimits
  /\ variant \in Variants
  /\ ckpt_stats = NoFile
  /\ ckpt_token = NoToken
  /\ pc = "start"
  /\ folders_to_scan = <<>>
  /\ aggr = EmptyAggr
  /\ current_folder_idx = 0
  /\ start_token = NoToken
  /\ i = Unbound
  /\ next_fetch = NoToken
  /\ requests_made = 0
  /\ pages_since_save = 0
  /\ page = <<>>
  /\ page_next = NoToken
  /\ pos = 1
  /\ current_next_token = Unbound
  /\ status_final = Sucesso
  /\ report = "none"
  /\ resumed = FALSE
  /\ runs = 1
  /\ listing_calls = <<>>
  /\ DiscoverStart

Init == InitRun(Namespaces)

\* PASSO 1: both listing calls answer
Partitioning ==
  /\ pc = "start"
  /\ folders_to_scan' = Partition
  /\ listing_calls' = ListingCalls
  /\ pc' = "load"
  /\ UNCHANGED << discover, config, disk, aggr, current_folder_idx, start_token, i,
                  next_fetch, requests_made, pages_since_save, pageVars,
                  current_next_token, status_final, report, resumed, runs >>

\* PartitioningFails with the exception swallowed: the run goes on with the
\* root folders listed before the failing drill-down
PartitioningFails_Swallowed ==
  /\ pc = "start"
  /\ \E n \in 1..Len(ListingCalls) : listing_calls' = SubSeq(ListingCalls, 1, n)
  /\ folders_to_scan' =
       SelectSeq(get_immediate_subfolders(root_prefix),
                 LAMBDA f : ~StartsWith(IGNORED_PREFIX, f))
  /\ pc' = "load"
  /\ UNCHANGED << discover, config, disk, aggr, current_folder_idx,
                  start_token, i, next_fetch, requests_made, pages_since_save,
                  pageVars, current_next_token, status_final, report, resumed,
                  runs >>

\* PASSO 1: a listing call of get_immediate_subfolders raises; nothing in
\* scan_bucket catches it
PartitioningFails ==
  /\ pc = "start"
  /\ \E n \in 1..Len(ListingCalls) : listing_calls' = SubSeq(ListingCalls, 1, n)
  /\ pc' = "raised"
  /\ UNCHANGED << discover, config, disk, folders_to_scan, aggr, current_folder_idx,
                  start_token, i, next_fetch, requests_made, pages_since_save,
                  pageVars, current_next_token, status_final, report, resumed,
                  runs >>

\* PASSO 2: load_checkpoint and the choice of the start state
Prepare ==
  /\ pc = "load"
  /\ LET ck == load_checkpoint IN
       IF UseCheckpoint(ck)
       THEN /\ aggr' = [ folder_stats |-> ck.stats,
                         recent_files_stats |-> ck.recent_stats,
                         extension_stats |-> ck.ext_stats,
                         all_known_paths |-> ck.paths,
                         files_found_paths |-> ck.files_paths,
                         total_files |-> ck.total,
                         ignored_files_count |-> 0 ]
            /\ current_folder_idx' = ck.idx
            /\ start_token' = ck.token
            /\ resumed' = TRUE
       ELSE /\ aggr' = EmptyAggr
            /\ current_folder_idx' = 0
            /\ start_token' = NoToken
            /\ resumed' = FALSE
  /\ pc' = "loop"
  /\ UNCHANGED << discover, config, disk, folders_to_scan, i, next_fetch, requests_made,
                  pages_since_save, pageVars, current_next_token, status_final,
                  report, runs, listing_calls >>

\* "for i in range(current_folder_idx, len(folders_to_scan))": the next
\* partition and its pagination_config, or the end of the loop
NextFolder ==
  /\ pc = "loop"
  /\ LET nxt == IF i = Unbound THEN current_folder_idx ELSE i + 1 IN
       IF nxt < Len(folders_to_scan)
       THEN /\ i' = nxt
            /\ IF start_token # NoToken /\ nxt = current_folder_idx
               THEN next_fetch' = start_token /\ start_token' = NoToken
               ELSE next_fetch' = NoToken /\ UNCHANGED start_token
            /\ pages_since_save' = 0
            /\ pc' = "fetch"
       ELSE /\ pc' = "report"
            /\ UNCHANGED << i, next_fetch, start_token, pages_since_save >>
  /\ UNCHANGED << discover, config, disk, folders_to_scan, aggr, current_folder_idx,
                  requests_made, pageVars, current_next_token, status_final,
                  report, resumed, runs, listing_calls >>

\* PeriodicSaveDue with the comparison off by one
PeriodicSaveDue_Late(token, since_save) ==
  token # NoToken /\ since_save > SaveEvery

\* "'NextContinuationToken' in page and pages_since_save >= 500"
PeriodicSaveDue(token, since_save) == token # NoToken /\ since_save >= SaveEvery

\* LimitReached with the comparison off by one
LimitReached_AtCeiling(made) ==
  MAX_REQUESTS_SAFETY > 0 /\ made >= MAX_REQUESTS_SAFETY

\* "MAX_REQUESTS_SAFETY > 0 and requests_made > MAX_REQUESTS_SAFETY"
LimitReached(made) == MAX_REQUESTS_SAFETY > 0 /\ made > MAX_REQUESTS_SAFETY

\* "for page in pbar": a page arrives; periodic checkpoint; safety ceiling
FetchPage ==
  /\ pc = "fetch"
  /\ LET L == ListObjects(folders_to_scan[i + 1])
         contents == PageContents(L, next_fetch)
         token == NextContinuationToken(L, next_fetch)
         periodic == PeriodicSaveDue(token, pages_since_save + 1)
         limit == LimitReached(requests_made + 1)
     IN
       /\ requests_made' = requests_made + 1
       /\ pages_since_save' = IF periodic THEN 0 ELSE pages_since_save + 1
       /\ IF limit
          THEN \* raise StopIteration; the handler saves and the run ends
               /\ status_final' = Limite
               /\ save_checkpoint(aggr, TokenToSave(current_next_token), i)
               /\ pc' = "report"
               /\ UNCHANGED pageVars
          ELSE /\ IF periodic
                  THEN save_checkpoint(aggr, token, i)
                  ELSE UNCHANGED disk
               /\ page' = contents
               /\ page_next' = token
               /\ pos' = 1
               /\ pc' = "objects"
               /\ UNCHANGED status_final
  /\ UNCHANGED << discover, config, folders_to_scan, aggr, current_folder_idx, start_token,
                  i, next_fetch, current_next_token, report, resumed, runs, listing_calls >>

\* "for obj in page['Contents']": one object
ProcessOne ==
  /\ pc = "objects"
  /\ pos <= Len(page)
  /\ aggr' = ProcessObject(aggr, page[pos])
  /\ pos' = pos + 1
  /\ UNCHANGED << discover, config, disk, pc, folders_to_scan, current_folder_idx,
                  start_token, i, next_fetch, requests_made, pages_since_save,
                  page, page_next, current_next_token, status_final, report,
                  resumed, runs, listing_calls >>

\* end of the page: current_next_token (skipped by "continue" when the page
\* has no Contents); then the next page, or the partition-boundary checkpoint
EndPage ==
  /\ pc = "objects"
  /\ pos > Len(page)
  /\ current_next_token' = IF page # <<>> THEN page_next ELSE current_next_token
  /\ IF page_next # NoToken
     THEN /\ next_fetch' = page_next
          /\ pc' = "fetch"
          /\ UNCHANGED disk
     ELSE /\ save_checkpoint(aggr, NoToken, i + 1)
          /\ pc' = "loop"
          /\ UNCHANGED next_fetch
  /\ UNCHANGED << discover, config, folders_to_scan, aggr, current_folder_idx, start_token,
                  i, requests_made, pages_since_save, pageVars, status_final,
                  report, resumed, runs, listing_calls >>

\* KeyboardInterrupt inside the partition loop, and its handler
Cancel ==
  /\ pc \in {"fetch", "objects"} \/ (pc = "loop" /\ i # Unbound)
  /\ status_final' = IF status_final = Sucesso THEN Cancelado ELSE status_final
  /\ save_checkpoint(aggr, TokenToSave(current_next_token), i)
  /\ pc' = "report"
  /\ UNCHANGED << discover, config, folders_to_scan, aggr, current_folder_idx, start_token,
                  i, next_fetch, requests_made, pages_since_save, pageVars,
                  current_next_token, report, resumed, runs, listing_calls >>

\* the page request raises; "except Exception" saves only with a token
TransportError ==
  /\ pc = "fetch"
  /\ status_final' = Erro
  /\ IF TokenToSave(current_next_token) # NoToken
     THEN save_checkpoint(aggr, current_next_token, i)
     ELSE UNCHANGED disk
  /\ pc' = "report"
  /\ UNCHANGED << discover, config, folders_to_scan, aggr, current_folder_idx, start_token,
                  i, next_fetch, requests_made, pages_since_save, pageVars,
                  current_next_token, report, resumed, runs, listing_calls >>

\* "finally": generate_excel_report; the Excel files are written or the
\* write raises (caught and logged); then the checkpoint cleanup
generate_excel_report(written) ==
  /\ report' = IF written THEN "saved" ELSE "failed"
  /\ IF status_final = Sucesso
     THEN ckpt_stats' = NoFile /\ ckpt_token' = NoToken
     ELSE UNCHANGED disk

Finally ==
  /\ pc = "report"
  /\ \E written \in BOOLEAN : generate_excel_report(written)
  /\ pc' = "done"
  /\ UNCHANGED << discover, config, folders_to_scan, aggr, current_folder_idx, start_token,
                  i, next_fetch, requests_made, pages_since_save, pageVars,
                  current_next_token, status_final, resumed, runs, listing_calls >>

\* the process is started again; the files on disk are what is left
NewRun ==
  /\ pc \in {"done", "raised", "crashed"}
  /\ runs < MaxRuns
  /\ runs' = runs + 1
  /\ pc' = "start"
  /\ folders_to_scan' = <<>>
  /\ aggr' = EmptyAggr
  /\ current_folder_idx' = 0
  /\ start_token' = NoToken
  /\ i' = Unbound
  /\ next_fetch' = NoToken
  /\ requests_made' = 0
  /\ pages_since_save' = 0
  /\ page' = <<>>
  /\ page_next' = NoToken
  /\ pos' = 1
  /\ current_next_token' = Unbound
  /\ status_final' = Sucesso
  /\ report' = "none"
  /\ resumed' = FALSE
  /\ listing_calls' = <<>>
  /\ UNCHANGED << discover, config, disk >>

Next ==
  \/ Partitioning
  \/ PartitioningFails
  \/ Prepare
  \/ NextFolder
  \/ FetchPage
  \/ ProcessOne
  \/ EndPage
  \/ Cancel
  \/ TransportError
  \/ Finally
  \/ NewRun

Spec == Init /\ [][Next]_vars

\* --------------------------------------- the process dies in save_checkpoint
\* the (next_token, current_folder_idx) of the save_checkpoint calls the run
\* can make from where it stands: periodic, partition boundary, handlers
SaveCalls ==
  LET periodic ==
        IF pc = "fetch"
        THEN LET token == NextContinuationToken(
                            ListObjects(folders_to_scan[i + 1]), next_fetch)
             IN  IF PeriodicSaveDue(token, pages_since_save + 1)
                 THEN {<<token, i>>} ELSE {}
        ELSE {}
      boundary ==
        IF pc = "objects" /\ pos > Len(page) /\ page_next = NoToken
        THEN {<<NoToken, i + 1>>} ELSE {}
      handler ==
        IF pc \in {"fetch", "objects"} \/ (pc = "loop" /\ i # Unbound)
        THEN {<<TokenToSave(current_next_token), i>>} ELSE {}
  IN  periodic \cup boundary \cup handler

CrashPhases == {"before", "inside_stats", "between", "inside_token", "after"}

\* what the two files hold when the process dies in save_checkpoint:
\* open(CHECKPOINT_STATS_FILE, 'wb') truncates, pickle.dump writes, then the
\* token file is written or removed
DiskAfterCrash(phase, a, next_token, idx) ==
  CASE phase = "before"       -> <<ckpt_stats, ckpt_token>>
    [] phase = "inside_stats" -> <<Corrupt, ckpt_token>>
    [] phase = "between"      -> <<CheckpointRecord(a, idx), ckpt_token>>
    [] phase = "inside_token" -> <<CheckpointRecord(a, idx), NoToken>>
    [] phase = "after"        -> <<CheckpointRecord(a, idx), TokenFile(next_token)>>

CrashInSave ==
  /\ \E call \in SaveCalls : \E phase \in CrashPhases :
       /\ phase = "inside_token" => call[1] # NoToken
       /\ LET d == DiskAfterCrash(phase, aggr, call[1], call[2]) IN
            ckpt_stats' = d[1] /\ ckpt_token' = d[2]
  /\ pc' = "crashed"
  /\ UNCHANGED << discover, config, folders_to_scan, aggr, current_folder_idx, start_token,
                  i, next_fetch, requests_made, pages_since_save, pageVars,
                  current_next_token, status_final, report, resumed, runs,
                  listing_calls >>

NextCrash == Next \/ CrashInSave

SpecCrash == Init /\ [][NextCrash]_vars


\* the runs in which nobody presses Ctrl-C: every run ends by itself, at the
\* request ceiling or with an exception of an S3 call
NextNoCancel ==
  \/ Partitioning
  \/ PartitioningFails
  \/ Prepare
  \/ NextFolder
  \/ FetchPage
  \/ ProcessOne
  \/ EndPage
  \/ TransportError
  \/ Finally
  \/ NewRun

SpecNoCancel == Init /\ [][NextNoCancel]_vars

\* the runs that only the request ceiling can stop: no Ctrl-C and no
\* exception of an S3 call
NextLimitOnly ==
  \/ Partitioning
  \/ Prepare
  \/ NextFolder
  \/ FetchPage
  \/ ProcessOne
  \/ EndPage
  \/ Finally
  \/ NewRun

SpecLimitOnly == Init /\ [][NextLimitOnly]_vars

\* ------------------------------------ the two scanners in one directory
\* the operator starts the other scanner: s3_audit.py and
\* s3_audit_recents.py use the same checkpoint file names, so the run finds
\* what the run before it left on disk
OtherVariantRun ==
  /\ pc \in {"done", "raised"}
  /\ runs < MaxRuns
  /\ variant' = IF variant = "full" THEN "recents" ELSE "full"
  /\ runs' = runs + 1
  /\ pc' = "start"
  /\ folders_to_scan' = <<>>
  /\ aggr' = EmptyAggr
  /\ current_folder_idx' = 0
  /\ start_token' = NoToken
  /\ i' = Unbound
  /\ next_fetch' = NoToken
  /\ requests_made' = 0
  /\ pages_since_save' = 0
  /\ page' = <<>>
  /\ page_next' = NoToken
  /\ pos' = 1
  /\ current_next_token' = Unbound
  /\ status_final' = Sucesso
  /\ report' = "none"
  /\ resumed' = FALSE
  /\ listing_calls' = <<>>
  /\ UNCHANGED << discover, ns, IGNORED_PREFIX, MAX_REQUESTS_SAFETY, disk >>

\* runs that alternate between the two scanners
NextVariants ==
  \/ Partitioning
  \/ PartitioningFails
  \/ Prepare
  \/ NextFolder
  \/ FetchPage
  \/ ProcessOne
  \/ EndPage
  \/ Cancel
  \/ TransportError
  \/ Finally
  \/ OtherVariantRun

SpecVariants == Init /\ [][NextVariants]_vars

\* ----------------------------------------- s3_discover_clients.py: the run
\* a listing entry and what the services answer for it: the key is a folder
\* marker or not, LastModified is before the cutoff or not, the extension is
\* in VALID_EXTS or not; download_fileobj gives a file, a file over 5 MB, a
\* connection error or another error; detect_document_text gives text with
\* identifiers ("data"), text without ("plain"), no text ("empty"), a
\* connection error ("unreachable") or another error ("error")
DiscoverObjects ==
  [ marker : BOOLEAN, recent : BOOLEAN, valid_ext : BOOLEAN,
    download : {"ok", "big", "network", "error"},
    textract : {"data", "plain", "empty", "unreachable", "error"} ]

\* full_text of a Textract answer: the LINE blocks joined
FullText(answer) == IF answer = "empty" THEN "" ELSE answer

\* extract_info_from_text and the has_data test
HasData(full_text) == full_text = "data"

\* file_record: the file (by its position in the listing), the status and
\* the start of the text
FileRecord(n, full_text) ==
  [ Arquivo |-> n,
    Status |-> IF HasData(full_text) THEN "SUCESSO" ELSE "NENHUM DADO ENCONTRADO",
    Texto |-> full_text ]

\* what one turn of "for obj in page['Contents']" leaves: stats, the switch
\* and the Textract call it made
Left(st, available, call) == [ stats |-> st, available |-> available, call |-> call ]

\* body of "for obj in page['Contents']" of analyze_folder for the n-th
\* listing entry o
AnalyzeObject(st, available, o, n) ==
  IF o.marker THEN Left(st, available, "none")
  ELSE
    LET counted == [st EXCEPT !.total_files = @ + 1] IN
      IF ~o.recent THEN Left(counted, available, "none")
      ELSE IF ~(counted.ocr_performed < SAMPLES_PER_FOLDER)
        THEN Left(counted, available, "none")
      ELSE IF ~o.valid_ext THEN Left(counted, available, "none")
      ELSE IF o.download # "ok" THEN Left(counted, available, "none")
      ELSE IF available /\ o.textract = "unreachable"
        THEN Left(counted, FALSE, "unreachable")
      ELSE IF available /\ o.textract = "error"
        THEN Left(counted, available, "error")
      ELSE
        LET full_text == IF available THEN FullText(o.textract) ELSE ""
        IN  Left([counted EXCEPT
                    !.files_data = Append(@, FileRecord(n, full_text)),
                    !.ocr_performed = @ + 1],
                 available,
                 IF available THEN "ok" ELSE "none")

\* analyze_folder takes the next entry of the listing
AnalyzeNext ==
  /\ folder_no <= NumFolders
  /\ objects_seen < ObjectsPerFolder
  /\ \E o \in DiscoverObjects :
        LET left == AnalyzeObject(stats, textract_available, o, objects_seen + 1)
        IN  /\ stats' = left.stats
            /\ textract_available' = left.available
            /\ textract_call' = left.call
  /\ objects_seen' = objects_seen + 1
  /\ UNCHANGED << scanner, folder_no, folder_summaries, output_file >>

\* the summary row run() builds from the stats of one folder
Summary(st) ==
  [ total |-> st.total_files, lidos |-> st.ocr_performed ]

\* the listing ends, or the connection is lost while listing (caught):
\* analyze_folder returns stats, run() adds the summary row and turns to the
\* next folder
ReturnStats ==
  /\ folder_no <= NumFolders
  /\ folder_summaries' = Append(folder_summaries, Summary(stats))
  /\ folder_no' = folder_no + 1
  /\ objects_seen' = 0
  /\ stats' = EmptyStats
  /\ UNCHANGED << scanner, textract_available, output_file, textract_call >>

\* the Excel file of run(): written, or the write raises (caught)
WriteOutput ==
  /\ folder_no = NumFolders + 1
  /\ output_file = "none"
  /\ \E written \in BOOLEAN :
        output_file' = IF written THEN "saved" ELSE "failed"
  /\ UNCHANGED << scanner, textract_available, folder_no, objects_seen, stats,
                  folder_summaries, textract_call >>

InitDiscover ==
  /\ InitRun({NsFlat})
  /\ IGNORED_PREFIX = <<"A", "">>
  /\ MAX_REQUESTS_SAFETY = 0
  /\ variant = "full"

NextDiscover ==
  \/ AnalyzeNext
  \/ ReturnStats
  \/ WriteOutput

SpecDiscover == InitDiscover /\ [][NextDiscover]_vars

\* ------------------------------------------------- reference definitions
\* the aggregates that are stored in a checkpoint and shown in the report
AggOf(a) ==
  [ folder_stats |-> a.folder_stats, recent_files_stats |-> a.recent_files_stats,
    extension_stats |-> a.extension_stats, all_known_paths |-> a.all_known_paths,
    files_found_paths |-> a.files_found_paths, total_files |-> a.total_files ]

RECURSIVE FoldObjects(_, _, _)
FoldObjects(a, objs, k) ==
  IF k > Len(objs) THEN a ELSE FoldObjects(ProcessObject(a, objs[k]), objs, k + 1)

\* the object stream of one run without interruption: the listings of the
\* partitions, one after the other
RECURSIVE StreamFrom(_, _)
StreamFrom(fts, k) ==
  IF k > Len(fts) THEN <<>> ELSE ListObjects(fts[k]) \o StreamFrom(fts, k + 1)

Uninterrupted == FoldObjects(EmptyAggr, StreamFrom(Partition, 1), 1)

RECURSIVE SumMap(_)
SumMap(f) ==
  IF DOMAIN f = {} THEN 0
  ELSE LET k == CHOOSE x \in DOMAIN f : TRUE
       IN  f[k] + SumMap([x \in DOMAIN f \ {k} |-> f[x]])

YearSum(a, f) == IF f \in DOMAIN a.folder_stats THEN SumMap(a.folder_stats[f]) ELSE 0

\* ------------------------------- KeyboardInterrupt inside the object body
\* the object reaches the statements that update the aggregates
ReachesUpdates(o) ==
  /\ ~StartsWith(o.key, IGNORED_PREFIX)
  /\ o.ts \notin {"missing", "nodate", "naive"}
  /\ ~EndsWithSlash(o.key)
  /\ variant = "recents" => IsRecent(o.ts)

\* the update statements of the object body, in program order
UpdateOrder ==
  IF variant = "full"
  THEN << "files_found_paths", "all_known_paths", "folder_stats",
          "recent_files_stats", "extension_stats", "total_files" >>
  ELSE << "files_found_paths", "all_known_paths", "recent_files_stats",
          "total_files", "extension_stats" >>

\* the aggregates after the first n update statements of the body have run
\* on object o
PartialObject(a, o, n) ==
  LET full == ProcessObject(a, o)
      done == { UpdateOrder[j] : j \in 1..n }
  IN  [ f \in DOMAIN a |-> IF f \in done THEN full[f] ELSE a[f] ]

\* KeyboardInterrupt is raised between two update statements of the object
\* body; "except Exception" does not catch it, the handler of the partition
\* loop does
CancelMidObject ==
  /\ pc = "objects"
  /\ pos <= Len(page)
  /\ ReachesUpdates(page[pos])
  /\ \E n \in 1..(Len(UpdateOrder) - 1) :
       /\ aggr' = PartialObject(aggr, page[pos], n)
       /\ save_checkpoint(PartialObject(aggr, page[pos], n),
                          TokenToSave(current_next_token), i)
  /\ status_final' = IF status_final = Sucesso THEN Cancelado ELSE status_final
  /\ pc' = "report"
  /\ UNCHANGED << discover, config, folders_to_scan, current_folder_idx, start_token,
                  i, next_fetch, requests_made, pages_since_save, pageVars,
                  current_next_token, report, resumed, runs, listing_calls >>

NextInterrupt == Next \/ CancelMidObject

SpecInterrupt == Init /\ [][NextInterrupt]_vars

\* ------------------------------------------- buckets with special objects
InitObjects == InitRun(ObjectNamespaces)

SpecObjects == InitObjects /\ [][Next]_vars

\* ------------------------------------- a checkpoint of an older format
\* the statistics file left by a release that did not yet save ext_stats, or
\* neither ext_stats nor recent_stats
LegacyFields ==
  { {"exists", "readable", "stats", "recent_stats", "all_paths", "file_paths",
     "total", "folder_idx"},
    {"exists", "readable", "stats", "all_paths", "file_paths", "total",
     "folder_idx"} }

Restrict(data, fields) == [ f \in fields |-> data[f] ]

\* the checkpoints an aborted run leaves at a page boundary: k partitions
\* done and n pages of the next one, with the token of the page that follows
PageBoundaryCheckpoints ==
  { << CheckpointRecord(
         FoldObjects(EmptyAggr,
                     StreamFrom(SubSeq(Partition, 1, k), 1)
                       \o SubSeq(ListObjects(Partition[k + 1]), 1, n * PageSize),
                     1),
         k),
       n * PageSize >> :
    <<k, n>> \in { kn \in (0..(Len(Partition) - 1)) \X (0..1) :
                     kn[2] * PageSize < Len(ListObjects(Partition[kn[1] + 1])) } }

\* before the first run of this release, an aborted run of the older release
\* has left its checkpoint
LegacyCheckpointLeft ==
  /\ pc = "start"
  /\ runs = 1
  /\ ckpt_stats = NoFile
  /\ \E c \in PageBoundaryCheckpoints : \E fields \in LegacyFields :
       /\ ckpt_stats' = Restrict(c[1], fields)
       /\ ckpt_token' = c[2]
  /\ UNCHANGED << discover, config, pc, folders_to_scan, aggr, current_folder_idx,
                  start_token, i, next_fetch, requests_made, pages_since_save,
                  pageVars, current_next_token, status_final, report, resumed,
                  runs, listing_calls >>

NextLegacy == Next \/ LegacyCheckpointLeft

SpecLegacy == Init /\ [][NextLegacy]_vars

\* ------------------------------------------------------------------ claims

\* C1: a run that ends with status success, after any number of interrupted
\* and resumed runs, has the aggregates and the cumulative count of a single
\* uninterrupted run over the same namespace.
C1_ResumeEqualsUninterrupted ==
  (pc = "done" /\ status_final = Sucesso) => AggOf(aggr) = AggOf(Uninterrupted)

\* C2: at the end of an uninterrupted successful run of the full audit, for
\* every folder f the sum over years of YearCounter[f] is the number of
\* objects under the root that are not markers, not excluded, and whose
\* directory is f.
RealObjectsIn(f) ==
  { o \in ns : /\ StartsWith(o.key, root_prefix)
               /\ ~EndsWithSlash(o.key)
               /\ ~StartsWith(o.key, IGNORED_PREFIX)
               /\ FolderPath(o.key) = f }

\* C2, stated for the run that started cold and ended with success
C2_YearSumCountsEveryObject ==
  (pc = "done" /\ status_final = Sucesso /\ ~resumed /\ variant = "full") =>
     \A f \in { FolderPath(o.key) : o \in ns } \cup DOMAIN aggr.folder_stats :
        YearSum(aggr, f) = Cardinality(RealObjectsIn(f))


\* C3: no object under the excluded prefix contributes to any aggregate or to
\* the processed count (the scan loop counts it as ignored and changes
\* nothing else), at any nesting depth and across runs and resumes, while
\* every object in a sibling folder of the excluded prefix is counted.
ExcludedFolder(f) == StartsWith(f \o <<"">>, IGNORED_PREFIX)

NoExcludedInAggregates ==
  /\ \A f \in DOMAIN aggr.folder_stats \cup DOMAIN aggr.recent_files_stats
              \cup DOMAIN aggr.extension_stats \cup aggr.files_found_paths :
        ~ExcludedFolder(f)
  /\ \A q \in aggr.all_known_paths : ~StartsWith(q, IGNORED_PREFIX)

\* a real object in a folder that is a sibling of the excluded prefix
InSiblingFolder(o) ==
  LET n == Len(IGNORED_PREFIX) IN
    /\ Len(o.key) >= n
    /\ ~EndsWithSlash(o.key)
    /\ \A j \in 1..(n - 2) : o.key[j] = IGNORED_PREFIX[j]
    /\ o.key[n - 1] # IGNORED_PREFIX[n - 1]

SiblingsCounted ==
  (pc = "done" /\ status_final = Sucesso) =>
     \A o \in ns : InSiblingFolder(o) =>
        IF variant = "full"
        THEN YearSum(aggr, FolderPath(o.key)) >= 1
        ELSE IsRecent(o.ts) => FolderPath(o.key) \in DOMAIN aggr.recent_files_stats

ExcludedObjectOnlyIgnored ==
  (/\ pc = "objects"
   /\ pos <= Len(page)
   /\ pos' = pos + 1
   /\ StartsWith(page[pos].key, IGNORED_PREFIX))
  => /\ AggOf(aggr') = AggOf(aggr)
     /\ aggr'.ignored_files_count = aggr.ignored_files_count + 1

\* C3: the two invariants and the step property together
C3_ExclusionCorrect ==
  /\ [](NoExcludedInAggregates /\ SiblingsCounted)
  /\ [][ExcludedObjectOnlyIgnored]_vars

\* C3 witness: a resumed run ended with success, ignored an excluded object
\* and counted a sibling-folder object
C3_Witness ==
  /\ pc = "done" /\ status_final = Sucesso /\ resumed
  /\ aggr.ignored_files_count >= 1
  /\ \E o \in ns : InSiblingFolder(o) /\ YearSum(aggr, FolderPath(o.key)) >= 1

\* C4: FolderWithFilesSet is a subset of KnownPathSet after every object,
\* also for objects whose key has no separator (a folder and its
\* '/'-terminated path are taken as the same path).
C4_FilesFoundSubsetOfKnown ==
  \A f \in aggr.files_found_paths :
     f \in aggr.all_known_paths \/ (f \o <<"">>) \in aggr.all_known_paths

\* C5: in every state of a run, also after a checkpoint was loaded, every
\* folder that is a key of YearCounter or ExtensionCounter is in
\* FolderWithFilesSet and each of its ancestors up to the root is in
\* KnownPathSet.
C5_CountedFoldersKnown ==
  \A f \in DOMAIN aggr.folder_stats \cup DOMAIN aggr.extension_stats :
     /\ f \in aggr.files_found_paths
     /\ f # <<Raiz>> =>
          \A n \in 1..Len(f) : (SubSeq(f, 1, n) \o <<"">>) \in aggr.all_known_paths

\* C5 witness: a resumed run holds counts for the nested folder E/G
C5_Witness ==
  /\ resumed /\ pc = "objects"
  /\ <<"E", "G">> \in DOMAIN aggr.extension_stats
  /\ <<"E", "">> \in aggr.all_known_paths


\* C6: when a run reaches a terminal status: after success neither
\* checkpoint file exists; after user-cancelled, limit-reached or error a
\* checkpoint exists on storage.
C6_CheckpointDecision ==
  pc = "done" =>
     IF status_final = Sucesso
     THEN ~ckpt_stats.exists /\ ckpt_token = NoToken
     ELSE ckpt_stats.exists

\* C7: no run that scanned anything ends with the checkpoint absent unless a
\* report covering the complete scan has been persisted.
C7_NoDeletedCheckpointWithoutReport ==
  (pc = "done" /\ requests_made > 0 /\ ~ckpt_stats.exists) =>
     (report = "saved" /\ status_final = Sucesso)

\* C8: every run of scan_bucket that ends, whatever failed, has emitted a
\* terminal status (generate_excel_report was called with it) and has taken
\* the checkpoint decision.
C8_RunEndsWithStatus ==
  pc \in {"done", "raised"} => report # "none"

\* C9: with safety ceiling N >= 1 and a namespace of more than N pages, a
\* fresh run that is not cancelled and meets no error ends with status
\* limit-reached; the aggregates are then the fold of the objects of exactly
\* the first N pages, and the checkpoint on storage holds these aggregates,
\* the current partition index and the token that points at page N+1.
NumPages(L) == IF Len(L) = 0 THEN 1 ELSE (Len(L) + PageSize - 1) \div PageSize

RECURSIVE PagesBefore(_, _)
PagesBefore(fts, idx) ==
  IF idx = 0 THEN 0
  ELSE PagesBefore(fts, idx - 1) + NumPages(ListObjects(fts[idx]))

RECURSIVE FirstPages(_, _, _)
FirstPages(fts, k, n) ==
  IF n = 0 \/ k > Len(fts) THEN <<>>
  ELSE LET L == ListObjects(fts[k]) IN
         IF NumPages(L) <= n
         THEN L \o FirstPages(fts, k + 1, n - NumPages(L))
         ELSE SubSeq(L, 1, n * PageSize)

\* C9, stated at the end of a run that started cold
C9_LimitStopsAfterNPages ==
  LET N == MAX_REQUESTS_SAFETY
      fts == folders_to_scan
  IN  (pc = "done" /\ ~resumed /\ N >= 1 /\ PagesBefore(fts, Len(fts)) > N) =>
        /\ status_final # Sucesso
        /\ status_final = Limite =>
             /\ aggr = FoldObjects(EmptyAggr, FirstPages(fts, 1, N), 1)
             /\ ckpt_stats = CheckpointRecord(aggr, i)
             /\ PagesBefore(fts, i) <= N
             /\ N < PagesBefore(fts, i + 1)
             /\ ckpt_token = (N - PagesBefore(fts, i)) * PageSize

\* C9 witness: a limit stop in the middle of a partition, on the page whose
\* arrival also triggered a periodic checkpoint
C9_Witness ==
  /\ pc = "done" /\ status_final = Limite /\ ~resumed
  /\ MAX_REQUESTS_SAFETY = 1
  /\ ckpt_token = PageSize
  /\ aggr.total_files >= 1

\* C10: a run that finds a readable checkpoint starts from the saved
\* aggregates, at the saved partition index and with the saved token,
\* whatever the saved aggregates contain; only a run that finds none starts
\* at index 0 with empty aggregates.
C10_ResumeFromAnyCheckpoint ==
  (pc = "loop" /\ i = Unbound) =>
     IF ckpt_stats.exists
     THEN /\ AggOf(aggr) = AggOf([EmptyAggr EXCEPT
                                    !.folder_stats = ckpt_stats.stats,
                                    !.recent_files_stats = ckpt_stats.recent_stats,
                                    !.extension_stats = ckpt_stats.ext_stats,
                                    !.all_known_paths = ckpt_stats.all_paths,
                                    !.files_found_paths = ckpt_stats.file_paths,
                                    !.total_files = ckpt_stats.total])
          /\ current_folder_idx = ckpt_stats.folder_idx
          /\ start_token = ckpt_token
     ELSE /\ AggOf(aggr) = AggOf(EmptyAggr)
          /\ current_folder_idx = 0
          /\ start_token = NoToken


\* the statistics file is there and load_checkpoint cannot read it
Unreadable == ckpt_stats.exists /\ ~Loadable(ckpt_stats)

\* C11: when the statistics file on storage is corrupt or unreadable,
\* load_checkpoint returns its no-checkpoint tuple (no token, whatever the
\* token file holds) and the run starts as a cold start: empty aggregates,
\* count 0, partition index 0, first partition listed from its beginning
C11_CorruptIsColdStart ==
  Unreadable =>
    /\ load_checkpoint = NoCheckpoint
    /\ (pc = "loop" /\ i = Unbound) =>
          /\ aggr = EmptyAggr
          /\ current_folder_idx = 0
          /\ start_token = NoToken
          /\ ~resumed
    /\ (pc = "fetch" /\ requests_made = 0) => (i = 0 /\ next_fetch = NoToken)

\* a run has started on a corrupt statistics file with a token file left
C11_Witness ==
  /\ Unreadable
  /\ ckpt_token # NoToken
  /\ pc = "fetch"
  /\ requests_made = 0

\* the statistics file is readable and lacks ext_stats or recent_stats
LegacyOnDisk ==
  /\ ckpt_stats.exists
  /\ ckpt_stats.readable
  /\ {"stats", "all_paths", "file_paths", "total", "folder_idx"}
       \subseteq DOMAIN ckpt_stats
  /\ {"ext_stats", "recent_stats"} \ DOMAIN ckpt_stats # {}

\* C12: loading a readable record that lacks ext_stats or recent_stats
\* succeeds: the missing field comes back empty, every field that is present
\* (year counts, recent counts, path sets, count, index, token) comes back as
\* stored, and a run that resumes from it starts from these values
C12_LegacyRecordLoads ==
  LegacyOnDisk =>
    /\ load_checkpoint.stats = ckpt_stats.stats
    /\ load_checkpoint.paths = ckpt_stats.all_paths
    /\ load_checkpoint.files_paths = ckpt_stats.file_paths
    /\ load_checkpoint.total = ckpt_stats.total
    /\ load_checkpoint.idx = ckpt_stats.folder_idx
    /\ load_checkpoint.token = ckpt_token
    /\ load_checkpoint.ext_stats =
         IF "ext_stats" \in DOMAIN ckpt_stats THEN ckpt_stats.ext_stats ELSE EmptyMap
    /\ load_checkpoint.recent_stats =
         IF "recent_stats" \in DOMAIN ckpt_stats
         THEN ckpt_stats.recent_stats ELSE EmptyMap
    /\ (pc = "loop" /\ i = Unbound /\ variant = "full"
          /\ DOMAIN ckpt_stats.stats # {}) =>
          /\ resumed
          /\ aggr.folder_stats = ckpt_stats.stats
          /\ aggr.extension_stats = load_checkpoint.ext_stats
          /\ aggr.total_files = ckpt_stats.total
          /\ current_folder_idx = ckpt_stats.folder_idx
          /\ start_token = ckpt_token

\* a run has resumed from a record without ext_stats and recent_stats that
\* has a token beside it
C12_Witness ==
  /\ LegacyOnDisk
  /\ DOMAIN ckpt_stats \cap {"ext_stats", "recent_stats"} = {}
  /\ ckpt_token # NoToken
  /\ pc = "loop"
  /\ i = Unbound
  /\ resumed
  /\ aggr.total_files > 0

\* what load_checkpoint returns once save_checkpoint(aggr, call[1], call[2])
\* has completed
LoadAfterSave(call) ==
  [ stats |-> aggr.folder_stats, recent_stats |-> aggr.recent_files_stats,
    ext_stats |-> aggr.extension_stats, paths |-> aggr.all_known_paths,
    files_paths |-> aggr.files_found_paths, total |-> aggr.total_files,
    token |-> call[1], idx |-> call[2] ]

\* C13: when the process dies in save_checkpoint, the next load_checkpoint
\* returns the record saved before or the record being saved, never a
\* mixture of the two and never nothing where a record was saved before
C13_CrashLeavesOldOrNew ==
  [][ (pc # "crashed" /\ pc' = "crashed") =>
        \E call \in SaveCalls :
          load_checkpoint' \in {load_checkpoint, LoadAfterSave(call)} ]_vars

\* a step that writes the statistics file
CheckpointWritten == ckpt_stats' # ckpt_stats /\ ckpt_stats'.exists

\* C14: every checkpoint written has a partition index at most the length of
\* the partition list of the run that writes it, and a write never stores a
\* smaller partition index than the checkpoint it replaces
C14_IndexBoundedAndMonotone ==
  [][ CheckpointWritten =>
        /\ ckpt_stats'.folder_idx <= Len(folders_to_scan)
        /\ ckpt_stats.exists => ckpt_stats'.folder_idx >= ckpt_stats.folder_idx
    ]_vars

\* C15: every step that aborts the scan inside partition i (page request
\* error, cancellation, request ceiling) leaves a checkpoint with partition
\* index i and the continuation token last observed for partition i, the
\* token the run was resumed with included; the token is none only at the
\* very start of the partition
C15_AbortSavesCursor ==
  [][ (pc \in {"fetch", "objects"} /\ pc' = "report") =>
        /\ ckpt_stats'.exists
        /\ ckpt_stats'.folder_idx = i
        /\ ckpt_token' = next_fetch
    ]_vars

\* some and not all objects of the page in hand have been processed
MidPage == pc = "objects" /\ 1 < pos /\ pos <= Len(page)

\* C16: checkpoints are written at page boundaries only: no save_checkpoint
\* call (periodic, partition boundary, abort handlers) stores aggregates that
\* hold some and not all of the objects of a page
C16_SavesAtPageBoundaries ==
  [][ CheckpointWritten => ~MidPage ]_vars

\* the child prefixes of a prefix p that is the root or ends in '/': one
\* more path component, taken from the keys that continue below p
ChildrenOf(p) ==
  LET stem == SubSeq(p, 1, Len(p) - 1)
  IN  { stem \o <<o.key[Len(p)], "">> :
          o \in { x \in ns : /\ Len(x.key) > Len(p)
                             /\ SubSeq(x.key, 1, Len(p) - 1) = stem } }

SeqRange(q) == { q[j] : j \in 1..Len(q) }

\* the child of the root above the excluded prefix
ExcludedParent == <<IGNORED_PREFIX[1], "">>

\* the excluded prefix lies one level below an immediate child of the root
ExcludedOneLevelBelow ==
  Len(IGNORED_PREFIX) = 3 /\ ExcludedParent \in ChildrenOf(root_prefix)

\* C17: when the excluded prefix lies one level below a child c of the root,
\* partitioning makes the root listing and one drill-down listing, on c; the
\* partition list holds each other child of the root and each other child
\* of c once, and neither c nor anything equal to or under the excluded prefix
C17_DrillDownOmitsOnlyExcluded ==
  (ExcludedOneLevelBelow /\ pc \notin {"start", "raised"}) =>
    /\ listing_calls = <<root_prefix, ExcludedParent>>
    /\ SeqRange(folders_to_scan) =
         (ChildrenOf(root_prefix) \ {ExcludedParent})
           \cup (ChildrenOf(ExcludedParent) \ {IGNORED_PREFIX})
    /\ Len(folders_to_scan) = Cardinality(SeqRange(folders_to_scan))
    /\ \A f \in SeqRange(folders_to_scan) : ~StartsWith(f, IGNORED_PREFIX)

\* partitioning has drilled down into A/, dropped A/B/ and kept A/C/ and E/
C17_Witness ==
  /\ ExcludedOneLevelBelow
  /\ pc = "load"
  /\ IGNORED_PREFIX \in ChildrenOf(ExcludedParent)
  /\ folders_to_scan = << <<"A", "C", "">>, <<"E", "">> >>

\* the objects a run over the single partition root has to process
RootStream == ListObjects(root_prefix)

\* C18: when the root has no child prefix the partition list is the single
\* entry root and a run that succeeds from a cold start has processed every
\* object under the root, as one partition; otherwise every entry of the
\* partition list is a child prefix of the root or of a child of the root
C18_FlatRootIsOnePartition ==
  pc \notin {"start", "raised"} =>
    IF ChildrenOf(root_prefix) = {}
    THEN /\ folders_to_scan = <<root_prefix>>
         /\ (pc = "done" /\ status_final = Sucesso /\ ~resumed) =>
               /\ i = 0
               /\ AggOf(aggr) = AggOf(FoldObjects(EmptyAggr, RootStream, 1))
    ELSE \A f \in SeqRange(folders_to_scan) :
           \/ f \in ChildrenOf(root_prefix)
           \/ \E c \in ChildrenOf(root_prefix) : f \in ChildrenOf(c)

\* a cold run over a root without child prefixes has ended with success
C18_Witness ==
  /\ ChildrenOf(root_prefix) = {}
  /\ ns # {}
  /\ pc = "done"
  /\ status_final = Sucesso
  /\ ~resumed
  /\ folders_to_scan = <<root_prefix>>
  /\ requests_made >= 1

\* C19: the partition list of every run is in strictly ascending
\* lexicographic order, also where the subfolders of a drilled-down folder
\* stand in its place; being strictly ascending, the list is fixed by the set
\* of prefixes it holds, so every run over the same namespace and
\* configuration has the same prefix at the same index
C19_PartitionListSorted ==
  /\ \A j, k \in 1..Len(folders_to_scan) :
       j < k => KeyLess(folders_to_scan[j], folders_to_scan[k])
  /\ pc \notin {"start", "raised"} => folders_to_scan = Partition

\* a resumed run holds a list of at least two entries made with a drill-down
C19_Witness ==
  /\ pc = "fetch"
  /\ resumed
  /\ Len(listing_calls) = 2
  /\ Len(folders_to_scan) >= 2
  /\ ckpt_stats.exists
  /\ ckpt_stats.folder_idx = 1
  /\ i = 1

\* C20: a partitioning step in which a listing call fails (the root listing
\* or the drill-down listing) leaves scan_bucket with the exception: no
\* partition list is kept, no page is requested, no aggregate changes, the
\* two checkpoint files stay as they were, and nothing follows in that run
C20_ListingFailurePropagates ==
  [][ /\ (pc = "start" /\ listing_calls' # ListingCalls) => pc' = "raised"
      /\ (pc = "start" /\ pc' = "raised") =>
            /\ ckpt_stats' = ckpt_stats
            /\ ckpt_token' = ckpt_token
            /\ folders_to_scan' = <<>>
            /\ aggr' = EmptyAggr
            /\ requests_made' = 0
            /\ i' = Unbound
            /\ report' = "none"
      /\ pc = "raised" =>
            /\ pc' = "start"
            /\ ckpt_stats' = ckpt_stats
            /\ ckpt_token' = ckpt_token
    ]_vars

\* the drill-down listing has failed in a run that found a checkpoint with
\* a token on storage
C20_Witness ==
  /\ pc = "raised"
  /\ Len(listing_calls) = 2
  /\ ckpt_stats.exists
  /\ ckpt_token # NoToken

\* the per-object try block raises on object o: obj['LastModified'] is
\* missing, or a value that is no time-zone-aware datetime is used (.year,
\* comparison with cutoff_date)
RaisesError(o) ==
  /\ ~StartsWith(o.key, IGNORED_PREFIX)
  /\ \/ o.ts = "missing"
     \/ /\ o.ts \in {"nodate", "naive"}
        /\ variant = "full" => ~EndsWithSlash(o.key)

\* a step that processes the object at pos
ObjectStep == pc = "objects" /\ pos <= Len(page) /\ pos' = pos + 1

\* C21: processing an object that raises adds one to the ignored count and
\* leaves the run in the object loop of the same page with its status as it
\* was; a cold run over the bucket with malformed objects that ends with
\* success has counted the well-formed object that follows them
C21_ObjectErrorIsContained ==
  [][ /\ (ObjectStep /\ RaisesError(page[pos])) =>
            /\ aggr'.ignored_files_count = aggr.ignored_files_count + 1
            /\ pc' = "objects"
            /\ page' = page
            /\ status_final' = status_final
      /\ (ns = NsMalformed /\ pc = "done" /\ status_final = Sucesso /\ ~resumed) =>
            /\ aggr.total_files = 1
            /\ aggr.recent_files_stats = (<<"E">> :> 1)
    ]_vars

\* a run over the bucket with malformed objects has ended with success,
\* three or more objects ignored and the object after them counted
C21_Witness ==
  /\ ns = NsMalformed
  /\ pc = "done"
  /\ status_final = Sucesso
  /\ aggr.ignored_files_count >= 3
  /\ aggr.total_files = 1

\* C22: a cancellation takes effect between two objects or between two
\* pages only: when the run leaves the object loop for the abort path, the
\* aggregates it checkpoints are those before or those after the whole of
\* the object in hand, never part of its updates
C22_CancelBetweenObjects ==
  [][ (pc = "objects" /\ pc' = "report") =>
        /\ \/ aggr' = aggr
           \/ pos <= Len(page) /\ aggr' = ProcessObject(aggr, page[pos])
        /\ ckpt_stats' = CheckpointRecord(aggr', i)
    ]_vars

\* a step that processes a marker object outside the excluded prefix
MarkerStep ==
  /\ ObjectStep
  /\ EndsWithSlash(page[pos].key)
  /\ ~StartsWith(page[pos].key, IGNORED_PREFIX)

\* C23: processing a marker object that is not under the excluded prefix
\* adds its key to the known paths and changes no counter, not the set of
\* folders with files and not the processed count
C23_MarkerOnlyKnownPath ==
  [][ MarkerStep =>
        /\ aggr'.all_known_paths = aggr.all_known_paths \cup {page[pos].key}
        /\ aggr'.folder_stats = aggr.folder_stats
        /\ aggr'.recent_files_stats = aggr.recent_files_stats
        /\ aggr'.extension_stats = aggr.extension_stats
        /\ aggr'.files_found_paths = aggr.files_found_paths
        /\ aggr'.total_files = aggr.total_files
    ]_vars

\* every prefix of the logical folder of a key, '/'-terminated: a/ and a/b/
\* for the marker a/b/ and for the object a/b/f
AncestorPrefixes(key) ==
  { SubSeq(key, 1, n) \o <<"">> : n \in 1..(Len(key) - 1) }

\* the object is classified: it is outside the excluded prefix and, in the
\* recents variant, not older than the cutoff
Classified(o) ==
  /\ ~StartsWith(o.key, IGNORED_PREFIX)
  /\ variant = "recents" => IsRecent(o.ts)

\* C24: after an object outside the excluded prefix has been processed,
\* marker or not, every ancestor prefix of its logical folder is a known
\* path (objects the recents variant drops for their age are left aside)
C24_AncestorsKnown ==
  [][ (ObjectStep /\ Classified(page[pos])) =>
        AncestorPrefixes(page[pos].key) \subseteq aggr'.all_known_paths
    ]_vars

\* a cold run of the full audit over a/2021/f1.pdf, a/2021/f2.pdf,
\* a/2022/f3.txt, b/ has ended with success
ScenarioEnd ==
  /\ ns = NsScenario
  /\ variant = "full"
  /\ pc = "done"
  /\ status_final = Sucesso
  /\ ~resumed

\* C25 as stated: the scenario ends with the single folder key a holding
\* {2021: 2, 2022: 1}, a as the only folder with files, no recent count, and
\* a/ and b/ among the known paths
C25_ScenarioAsStated ==
  ScenarioEnd =>
    /\ aggr.folder_stats = (<<"a">> :> ((2021 :> 2) @@ (2022 :> 1)))
    /\ aggr.files_found_paths = {<<"a">>}
    /\ aggr.recent_files_stats = EmptyMap
    /\ {<<"a", "">>, <<"b", "">>} \subseteq aggr.all_known_paths

\* C25 amended: the scenario ends with the folder keys a/2021 holding
\* {2021: 2} and a/2022 holding {2022: 1}, these two as the folders with
\* files, no recent count, three objects counted, and exactly a/, a/2021/,
\* a/2022/ and b/ as known paths
C25_ScenarioAsComputed ==
  ScenarioEnd =>
    /\ aggr.folder_stats =
         (<<"a", "2021">> :> (2021 :> 2)) @@ (<<"a", "2022">> :> (2022 :> 1))
    /\ aggr.files_found_paths = {<<"a", "2021">>, <<"a", "2022">>}
    /\ aggr.recent_files_stats = EmptyMap
    /\ aggr.total_files = 3
    /\ aggr.all_known_paths =
         {<<"a", "">>, <<"a", "2021", "">>, <<"a", "2022", "">>, <<"b", "">>}

\* the scenario has run to its end and the marker b/ has been processed
C25_Witness ==
  /\ ScenarioEnd
  /\ i = 1
  /\ <<"b", "">> \in aggr.all_known_paths

\* every count of the counter m is at least as high in m2
CounterGrows(m, m2) ==
  \A k \in DOMAIN m : k \in DOMAIN m2 /\ m2[k] >= m[k]

NestedCounterGrows(m, m2) ==
  \A f \in DOMAIN m : f \in DOMAIN m2 /\ CounterGrows(m[f], m2[f])

AggregatesGrow(a, a2) ==
  /\ NestedCounterGrows(a.folder_stats, a2.folder_stats)
  /\ CounterGrows(a.recent_files_stats, a2.recent_files_stats)
  /\ NestedCounterGrows(a.extension_stats, a2.extension_stats)
  /\ a2.total_files >= a.total_files
  /\ a.all_known_paths \subseteq a2.all_known_paths
  /\ a.files_found_paths \subseteq a2.files_found_paths

\* C26: from the choice of the starting state to the end of the run, no
\* step lowers a count of the year, recent or extension counter or the
\* cumulative count, or removes a path from the known paths or from the
\* folders with files
C26_AggregatesOnlyGrow ==
  [][ (pc \in {"loop", "fetch", "objects", "report"}) =>
        AggregatesGrow(aggr, aggr') ]_vars

\* a resumed run holds a year count of three for one folder
C26_Witness ==
  /\ resumed
  /\ pc = "objects"
  /\ <<"E">> \in DOMAIN aggr.folder_stats
  /\ 2021 \in DOMAIN aggr.folder_stats[<<"E">>]
  /\ aggr.folder_stats[<<"E">>][2021] = 3

\* the step with which a run ends
RunEnds == pc \notin {"done", "raised"} /\ pc' \in {"done", "raised"}

\* the step with which the partition loop is left
LoopLeft == pc \in {"loop", "fetch", "objects"} /\ pc' = "report"

\* the page request that takes the request counter over a non-zero ceiling
CeilingExceeded ==
  /\ pc = "fetch"
  /\ requests_made' = requests_made + 1
  /\ MAX_REQUESTS_SAFETY > 0
  /\ requests_made' > MAX_REQUESTS_SAFETY

\* the status matches what made the run leave the partition loop
StatusMatchesCause ==
  /\ (status_final' = Limite) <=> CeilingExceeded
  /\ (status_final' = Cancelado) <=> Cancel
  /\ (status_final' = Erro) <=> TransportError
  /\ (status_final' = Sucesso) <=> NextFolder
  /\ MAX_REQUESTS_SAFETY = 0 => status_final' # Limite

\* C27: every run that ends has delivered one of the four terminal
\* statuses, and the status is limit-reached exactly when a page request
\* took the counter over a non-zero ceiling, user-cancelled exactly when a
\* cancellation stopped the loop, error exactly when an exception did, and
\* success otherwise
C27_StatusMatchesCause ==
  [][ /\ RunEnds =>
            /\ pc' = "done"
            /\ report' # "none"
            /\ status_final' \in {Sucesso, Limite, Cancelado, Erro}
      /\ LoopLeft => StatusMatchesCause
    ]_vars

\* the objects that precede the cursor (idx, token) in the scan order of the
\* partition list fts
ObjectsBeforeCursor(fts, idx, token) ==
  StreamFrom(SubSeq(fts, 1, idx), 1)
    \o (IF idx < Len(fts) THEN SubSeq(ListObjects(fts[idx + 1]), 1, token)
        ELSE <<>>)

\* the aggregates a statistics record holds
RecordAggregates(data) ==
  [ folder_stats |-> data.stats, recent_files_stats |-> data.recent_stats,
    extension_stats |-> data.ext_stats, all_known_paths |-> data.all_paths,
    files_found_paths |-> data.file_paths, total_files |-> data.total ]

\* C28: whenever a checkpoint is written, its aggregates are the fold of
\* exactly the objects before its cursor: the partitions before the saved
\* index in full and the pages of the saved partition before the saved token
C28_CheckpointMatchesCursor ==
  [][ CheckpointWritten =>
        RecordAggregates(ckpt_stats') =
          AggOf(FoldObjects(EmptyAggr,
                            ObjectsBeforeCursor(folders_to_scan,
                                                ckpt_stats'.folder_idx,
                                                ckpt_token'),
                            1))
    ]_vars

\* C29: when the only interruptions are stops at the request ceiling and
\* exceptions of a page request (no Ctrl-C, no crash), the run that ends with
\* success reports the aggregates and the cumulative count of one
\* uninterrupted run over the same namespace and cutoff
C29_LimitAndErrorResumeExact ==
  (pc = "done" /\ status_final = Sucesso) =>
     /\ aggr.total_files = Uninterrupted.total_files
     /\ AggOf(aggr) = AggOf(Uninterrupted)

\* a run that resumed past the first page ended with success
C29_Witness ==
  /\ pc = "done" /\ status_final = Sucesso
  /\ resumed /\ runs > 1
  /\ (current_folder_idx > 0 \/ start_token # NoToken)
  /\ aggr.total_files > 0

\* C30: with a request ceiling N >= 1 and no transport errors, the run that
\* follows a stop at the ceiling starts strictly further along than the run
\* before it, whatever the pages hold, so that repeated runs reach the end of
\* the namespace; stated for the start of a run that finds the checkpoint of
\* the stopped run: it starts at the saved cursor, which is past the origin
C30_ResumedRunStartsFurther ==
  ( /\ MAX_REQUESTS_SAFETY >= 1
    /\ runs > 1
    /\ pc = "loop" /\ i = Unbound
    /\ ckpt_stats.exists ) =>
     /\ current_folder_idx = ckpt_stats.folder_idx
     /\ start_token = ckpt_token
     /\ (current_folder_idx > 0 \/ start_token # NoToken)

\* the boundary record of partition index idx: statistics of the aggregates
\* as they stand, index idx, no token file
BoundaryRecordOnDisk(idx) ==
  /\ ckpt_stats.exists
  /\ ckpt_stats.readable
  /\ ckpt_stats.folder_idx = idx
  /\ ckpt_token = NoToken
  /\ RecordAggregates(ckpt_stats) = AggOf(aggr)

\* the first page of a partition that the run reached by finishing the
\* partition before it is about to be requested
FirstPageOfNextPartition ==
  /\ pc = "fetch"
  /\ i # Unbound /\ i > current_folder_idx
  /\ next_fetch = NoToken

\* the partition loop ran to its end
LoopRanOut == pc = "report" /\ status_final = Sucesso /\ i # Unbound

\* C31: when the last page of partition i (the page without continuation
\* token) has been processed, the checkpoint (index i+1, no token, token file
\* removed) is on disk before any page of partition i+1 is requested; after
\* the last partition the saved index is the length of the partition list
C31_BoundaryCheckpointBeforeNextPartition ==
  /\ FirstPageOfNextPartition => BoundaryRecordOnDisk(i)
  /\ LoopRanOut => BoundaryRecordOnDisk(Len(folders_to_scan))

\* a resumed run finished a partition, wrote the boundary record and is
\* about to request the first page of the next partition
C31_Witness ==
  /\ FirstPageOfNextPartition
  /\ BoundaryRecordOnDisk(i)
  /\ resumed
  /\ aggr.total_files > 0

\* a page of the partition in hand is received and handed to the object loop
PageReceived == pc = "fetch" /\ pc' = "objects"

\* the run turns to a partition
PartitionEntered == pc = "loop" /\ pc' = "fetch"

\* C32: inside one partition at most SaveEvery (500 in the program) pages are
\* received between two checkpoint writes: the page that makes the count of
\* pages since the last periodic write reach SaveEvery and carries a
\* continuation token is checkpointed with that token and restarts the
\* count, any other page only adds one to it, and the count starts from zero
\* at every partition
C32_PeriodicCheckpointCadence ==
  [][ /\ pages_since_save' <= SaveEvery
      /\ PartitionEntered => pages_since_save' = 0
      /\ PageReceived =>
            IF pages_since_save + 1 >= SaveEvery /\ page_next' # NoToken
            THEN /\ ckpt_stats' = CheckpointRecord(aggr, i)
                 /\ ckpt_token' = page_next'
                 /\ pages_since_save' = 0
            ELSE /\ UNCHANGED disk
                 /\ pages_since_save' = pages_since_save + 1
    ]_vars

\* a periodic checkpoint has just been written for a page with a token
C32_Witness ==
  /\ pc = "objects" /\ pos = 1
  /\ pages_since_save = 0
  /\ page_next # NoToken
  /\ ckpt_stats.exists /\ ckpt_stats.folder_idx = i
  /\ ckpt_token = page_next

\* the total of a nested counter (folder -> key -> count)
Total2(d) == SumMap([f \in DOMAIN d |-> SumMap(d[f])])

\* C33: an object whose processing raises a per-object error leaves the
\* aggregates as they were (counters, both path sets and the processed
\* count), so that in the full audit the processed count, the total of the
\* year counter and the total of the extension counter agree after every
\* object
C33_ErrorLeavesAggregatesUntouched ==
  [][ /\ (ObjectStep /\ RaisesError(page[pos])) => AggOf(aggr') = AggOf(aggr)
      /\ (ObjectStep /\ variant = "full") =>
            /\ Total2(aggr'.folder_stats) = aggr'.total_files
            /\ Total2(aggr'.extension_stats) = aggr'.total_files
    ]_vars

\* the second run is at the head of the partition loop and the checkpoint on
\* disk is the one the first run, of the other scanner, left
FoundOtherVariantCheckpoint ==
  /\ runs = 2
  /\ pc = "loop" /\ i = Unbound
  /\ ckpt_stats.exists

\* C34: a checkpoint written by one scanner is never the resume state of the
\* other: the run that finds it starts at partition 0, without token, with
\* empty aggregates
C34_NoCrossVariantResume ==
  FoundOtherVariantCheckpoint =>
     /\ ~resumed
     /\ current_folder_idx = 0
     /\ start_token = NoToken
     /\ AggOf(aggr) = AggOf(EmptyAggr)

\* C35: in analyze_folder, ocr_performed grows (and a record is added to
\* files_data) only for a file whose text came from a successful Textract
\* call; once a connection failure has switched textract_available off it
\* stays off, and from then on no file adds to ocr_performed or to
\* files_data; ocr_performed never exceeds SAMPLES_PER_FOLDER
C35_OcrCountsOnlyTextractReads ==
  [][ /\ stats'.ocr_performed > stats.ocr_performed => textract_call' = "ok"
      /\ Len(stats'.files_data) > Len(stats.files_data) => textract_call' = "ok"
      /\ ~textract_available =>
            /\ ~textract_available'
            /\ stats'.ocr_performed <= stats.ocr_performed
            /\ Len(stats'.files_data) <= Len(stats.files_data)
      /\ stats'.ocr_performed <= SAMPLES_PER_FOLDER
    ]_vars

====
